---- MODULE Spec2Model ----
(***************************************************************************)
(* Model of student_code.py: SortableDigraph (node / edge store),          *)
(* TraversableDigraph (dfs, bfs) and DAG (guarded add_edge, top_sort).     *)
(*                                                                         *)
(* One graph object is modelled.  Its class is fixed at construction       *)
(* (cls); add_edge is dispatched on the class as Python dispatches it.     *)
(* A Python dict is a mapping plus the insertion order of its keys: the    *)
(* dict self.graph is the function graph together with the sequence order. *)
(* Every method call is one atomic step (the program is single threaded    *)
(* and a traversal is consumed to its end by its caller); the call, its    *)
(* arguments and what it returned or raised are recorded in last.          *)
(*                                                                         *)
(* Spec is the whole interface.  SpecTraversal, SpecPredecessors,          *)
(* SpecStore, SpecDAG and SpecDAGEdges are the same machine restricted to  *)
(* the calls (and the optional arguments) a group of properties is about.  *)
(***************************************************************************)
EXTENDS Integers, Sequences, FiniteSets, TLC

\* ---------------------------------------------------------------- bounds
\* node identifiers are 1..MaxNodes
MaxNodes == 4
\* add_edge calls are enabled while the graph keeps at most MaxEdges edges
MaxEdges == 3

\* Python's None (default of value / edge_weight, result of dict.get on a
\* missing key); no supplied weight or value equals it
None == 0

Nodes == 1..MaxNodes
\* the weights and values callers supply; the code only tests them against
\* None and stores them
Weights == {1}
Values == {1}

VARIABLES cls, graph, order, node_values, edge_weights, last

vars == <<cls, graph, order, node_values, edge_weights, last>>

\* the object: the three dicts of __init__ (self.graph with its key order)
Self == [graph |-> graph, order |-> order, node_values |-> node_values, edge_weights |-> edge_weights]

\* ------------------------------------------------------- sequence helpers
Range(s) == {s[i] : i \in 1..Len(s)}

\* reversed(s)
Reverse(s) == [i \in 1..Len(s) |-> s[Len(s) + 1 - i]]

\* dict[key] = val on a dict modelled as a function (insert or overwrite)
DictSet(d, key, val) == [k \in (DOMAIN d) \cup {key} |-> IF k = key THEN val ELSE d[k]]

\* dict.get(key, default)
DictGet(d, key, default) == IF key \in DOMAIN d THEN d[key] ELSE default

\* the empty dict
EmptyDict == [k \in {} |-> None]

\* ------------------------------------------------------- SortableDigraph
\* add_node(node, value): lines 12-17
add_node(self, node, value) ==
  LET s1 == IF node \notin DOMAIN self.graph
            THEN [self EXCEPT !.graph = DictSet(self.graph, node, <<>>),
                              !.order = Append(self.order, node)]
            ELSE self
  IN IF value # None
     THEN [s1 EXCEPT !.node_values = DictSet(s1.node_values, node, value)]
     ELSE s1

\* mutant of append_edge: the membership test of line 25 is missing
append_edge_unchecked(self, start, end) ==
  [self EXCEPT !.graph = DictSet(self.graph, start, Append(self.graph[start], end))]

\* the "end not in self.graph[start]" test and append of add_edge: lines 25-26
append_edge(self, start, end) ==
  IF end \notin Range(self.graph[start])
  THEN [self EXCEPT !.graph = DictSet(self.graph, start, Append(self.graph[start], end))]
  ELSE self

\* mutant of add_edge: the weight is recorded only when the edge is new
add_edge_weight_if_new(self, start, end, edge_weight) ==
  LET s1 == IF start \notin DOMAIN self.graph THEN add_node(self, start, None) ELSE self
      s2 == IF end \notin DOMAIN s1.graph THEN add_node(s1, end, None) ELSE s1
      s3 == append_edge(s2, start, end)
  IN IF edge_weight # None /\ s3 # s2
     THEN [s3 EXCEPT !.edge_weights = DictSet(s3.edge_weights, <<start, end>>, edge_weight)]
     ELSE s3

\* SortableDigraph.add_edge(start, end, edge_weight): lines 19-28
add_edge(self, start, end, edge_weight) ==
  LET s1 == IF start \notin DOMAIN self.graph THEN add_node(self, start, None) ELSE self
      s2 == IF end \notin DOMAIN s1.graph THEN add_node(s1, end, None) ELSE s1
      s3 == append_edge(s2, start, end)
  IN IF edge_weight # None
     THEN [s3 EXCEPT !.edge_weights = DictSet(s3.edge_weights, <<start, end>>, edge_weight)]
     ELSE s3

\* __contains__(node): lines 30-32
contains(self, node) == node \in DOMAIN self.graph

\* __getitem__(node): lines 34-36
getitem(self, node) == DictGet(self.graph, node, <<>>)

\* get_edge_weight(start, end): lines 38-40
get_edge_weight(self, start, end) == DictGet(self.edge_weights, <<start, end>>, None)

\* successors(node): lines 42-44
successors(self, node) == DictGet(self.graph, node, <<>>)

\* the body of the for loop of predecessors, over the keys from position i on
RECURSIVE predecessorsFrom(_, _, _, _)
predecessorsFrom(self, node, i, preds) ==
  IF i > Len(self.order) THEN preds
  ELSE LET n == self.order[i]
           neighbors == self.graph[n]
       IN predecessorsFrom(self, node, i + 1, IF node \in Range(neighbors) THEN Append(preds, n) ELSE preds)

\* mutant of predecessors: each match is put in front of preds
predecessors_prepend(self, node) == Reverse(predecessorsFrom(self, node, 1, <<>>))

\* predecessors(node): lines 46-52
predecessors(self, node) == predecessorsFrom(self, node, 1, <<>>)

\* ---------------------------------------------------- TraversableDigraph
\* number of stored edges
RECURSIVE EdgeCountOf(_, _)
EdgeCountOf(g, keys) ==
  IF keys = {} THEN 0
  ELSE LET k == CHOOSE x \in keys : TRUE IN Len(g[k]) + EdgeCountOf(g, keys \ {k})

EdgeCount(g) == EdgeCountOf(g, DOMAIN g)

\* The while loops of dfs and bfs are unrolled for at most LoopFuel
\* iterations; a run records whether the loop was left (exited) and how
\* many iterations it took (iters).
LoopFuel == 2 * (MaxEdges + MaxNodes) + 2

\* mutant of dfs_body: the neighbors are pushed in stored order
dfs_body_unreversed(self, start, st) ==
  LET node == st.stack[Len(st.stack)]
      rest == SubSeq(st.stack, 1, Len(st.stack) - 1)
  IN IF node \in st.visited
     THEN [st EXCEPT !.stack = rest, !.iters = @ + 1]
     ELSE LET visited == st.visited \cup {node}
              neighbors == getitem(self, node)
              pushed == SelectSeq(neighbors, LAMBDA x : x \notin visited)
          IN [visited |-> visited,
              stack |-> rest \o pushed,
              out |-> IF node # start THEN Append(st.out, node) ELSE st.out,
              iters |-> st.iters + 1]

\* one iteration of "while stack:" in dfs: lines 63-74
dfs_body(self, start, st) ==
  LET node == st.stack[Len(st.stack)]
      rest == SubSeq(st.stack, 1, Len(st.stack) - 1)
  IN IF node \in st.visited
     THEN [st EXCEPT !.stack = rest, !.iters = @ + 1]
     ELSE LET visited == st.visited \cup {node}
              neighbors == getitem(self, node)
              pushed == SelectSeq(Reverse(neighbors), LAMBDA x : x \notin visited)
          IN [visited |-> visited,
              stack |-> rest \o pushed,
              out |-> IF node # start THEN Append(st.out, node) ELSE st.out,
              iters |-> st.iters + 1]

RECURSIVE dfs_loop(_, _, _)
dfs_loop(self, start, st) ==
  IF st.stack = <<>> THEN [out |-> st.out, iters |-> st.iters, exited |-> TRUE]
  ELSE IF st.iters >= LoopFuel THEN [out |-> st.out, iters |-> st.iters, exited |-> FALSE]
  ELSE dfs_loop(self, start, dfs_body(self, start, st))

\* dfs(start), consumed to its end: lines 57-74
dfs(self, start) == dfs_loop(self, start, [visited |-> {}, stack |-> <<start>>, out |-> <<>>, iters |-> 0])

\* mutant of bfs_body: the "if node in visited: continue" of lines 83-84 is
\* missing
bfs_body_no_skip(self, start, st) ==
  LET node == Head(st.queue)
      rest == Tail(st.queue)
      visited == st.visited \cup {node}
      neighbors == getitem(self, node)
      pushed == SelectSeq(neighbors, LAMBDA x : x \notin visited)
  IN [visited |-> visited,
      queue |-> rest \o pushed,
      out |-> IF node # start THEN Append(st.out, node) ELSE st.out,
      iters |-> st.iters + 1]

\* mutant of bfs_body: the queue is popped at its right end
bfs_body_lifo(self, start, st) ==
  LET node == st.queue[Len(st.queue)]
      rest == SubSeq(st.queue, 1, Len(st.queue) - 1)
  IN IF node \in st.visited
     THEN [st EXCEPT !.queue = rest, !.iters = @ + 1]
     ELSE LET visited == st.visited \cup {node}
              neighbors == getitem(self, node)
              pushed == SelectSeq(neighbors, LAMBDA x : x \notin visited)
          IN [visited |-> visited,
              queue |-> rest \o pushed,
              out |-> IF node # start THEN Append(st.out, node) ELSE st.out,
              iters |-> st.iters + 1]

\* one iteration of "while queue:" in bfs: lines 82-91
bfs_body(self, start, st) ==
  LET node == Head(st.queue)
      rest == Tail(st.queue)
  IN IF node \in st.visited
     THEN [st EXCEPT !.queue = rest, !.iters = @ + 1]
     ELSE LET visited == st.visited \cup {node}
              neighbors == getitem(self, node)
              pushed == SelectSeq(neighbors, LAMBDA x : x \notin visited)
          IN [visited |-> visited,
              queue |-> rest \o pushed,
              out |-> IF node # start THEN Append(st.out, node) ELSE st.out,
              iters |-> st.iters + 1]

RECURSIVE bfs_loop(_, _, _)
bfs_loop(self, start, st) ==
  IF st.queue = <<>> THEN [out |-> st.out, iters |-> st.iters, exited |-> TRUE]
  ELSE IF st.iters >= LoopFuel THEN [out |-> st.out, iters |-> st.iters, exited |-> FALSE]
  ELSE bfs_loop(self, start, bfs_body(self, start, st))

\* bfs(start), consumed to its end: lines 76-91
bfs(self, start) == bfs_loop(self, start, [visited |-> {}, queue |-> <<start>>, out |-> <<>>, iters |-> 0])

\* -------------------------------------------------------------------- DAG
\* _has_path(start, target): lines 113-123 (the for loop returns at the
\* first emitted node equal to target, else runs bfs to its end)
has_path(self, start, target) ==
  IF ~contains(self, start) THEN FALSE
  ELSE target \in Range(bfs(self, start).out)

\* DAG.add_edge(start, end, edge_weight): lines 96-111; raised is the ValueError
DAG_add_edge(self, start, end, edge_weight) ==
  LET s1 == IF ~contains(self, start) THEN add_node(self, start, None) ELSE self
      s2 == IF ~contains(s1, end) THEN add_node(s1, end, None) ELSE s1
  IN IF has_path(s2, end, start)
     THEN [self |-> s2, raised |-> TRUE]
     ELSE [self |-> add_edge(s2, start, end, edge_weight), raised |-> FALSE]

\* in_degree after the two for loops of lines 128-131: one increment per
\* occurrence of the node in a successor sequence
in_degree_init(self) ==
  [n \in DOMAIN self.graph |->
     Cardinality({p \in (DOMAIN self.graph) \X Nodes :
                    /\ p[2] \in 1..Len(self.graph[p[1]])
                    /\ self.graph[p[1]][p[2]] = n})]

\* the queue of line 133: the keys of in-degree 0, in key order
queue_init(self, in_degree) == SelectSeq(self.order, LAMBDA n : in_degree[n] = 0)

\* the for loop of lines 140-143 over neighbors[i..]
RECURSIVE relax(_, _, _)
relax(st, neighbors, i) ==
  IF i > Len(neighbors) THEN st
  ELSE LET neighbor == neighbors[i]
           d == st.in_degree[neighbor] - 1
       IN relax([st EXCEPT !.in_degree[neighbor] = d,
                           !.queue = IF d = 0 THEN Append(@, neighbor) ELSE @],
                neighbors, i + 1)

\* one iteration of "while queue:" in top_sort: lines 137-143
top_sort_body(self, st) ==
  LET node == Head(st.queue)
  IN relax([st EXCEPT !.queue = Tail(@), !.result = Append(@, node)], self.graph[node], 1)

RECURSIVE top_sort_loop(_, _)
top_sort_loop(self, st) ==
  IF st.queue = <<>> THEN st.result
  ELSE top_sort_loop(self, top_sort_body(self, st))

\* top_sort(): lines 125-145
top_sort(self) ==
  LET in_degree == in_degree_init(self)
  IN top_sort_loop(self, [in_degree |-> in_degree, queue |-> queue_init(self, in_degree), result |-> <<>>])

\* ---------------------------------------------------------- state machine
Call(op, a, b, w, raised, ret) == [op |-> op, a |-> a, b |-> b, w |-> w, raised |-> raised, ret |-> ret]

\* the constructor: lines 6-10
Init ==
  /\ cls \in {"TraversableDigraph", "DAG"}
  /\ graph = EmptyDict
  /\ order = <<>>
  /\ node_values = EmptyDict
  /\ edge_weights = EmptyDict
  /\ last = Call("init", None, None, None, FALSE, None)

\* Node identifiers are opaque to the code (they are only hashed and compared
\* for equality), so every run is a renaming of one in which the k-th node
\* to enter self.graph is node k.  Only those runs are generated: a call may
\* name the nodes already in the graph and the next unused identifiers.
NewNodes(node) == IF node \in DOMAIN graph THEN 0 ELSE 1

FreshNode(node) == node <= Len(order) + 1

FreshEdge(start, end) ==
  /\ start <= Len(order) + 1
  /\ end <= Len(order) + NewNodes(start) + 1

\* Only graphs of at most MaxEdges edges are generated.
InBounds(self) == EdgeCount(self.graph) <= MaxEdges

\* (the object a call returns is bound once, as \E s \in {...}, and stored)
Store(self) ==
  /\ graph' = self.graph
  /\ order' = self.order
  /\ node_values' = self.node_values
  /\ edge_weights' = self.edge_weights

Query == UNCHANGED <<cls, graph, order, node_values, edge_weights>>

AddNode(node, value) ==
  /\ FreshNode(node)
  /\ \E s \in {add_node(Self, node, value)} : Store(s)
  /\ last' = Call("add_node", node, None, value, FALSE, None)
  /\ UNCHANGED cls

\* add_edge on a SortableDigraph / TraversableDigraph object
AddEdge(start, end, w) ==
  /\ cls = "TraversableDigraph"
  /\ FreshEdge(start, end)
  /\ \E s \in {add_edge(Self, start, end, w)} :
        /\ InBounds(s)
        /\ Store(s)
  /\ last' = Call("add_edge", start, end, w, FALSE, None)
  /\ UNCHANGED cls

\* add_edge on a DAG object
DagAddEdge(start, end, w) ==
  /\ cls = "DAG"
  /\ FreshEdge(start, end)
  /\ \E r \in {DAG_add_edge(Self, start, end, w)} :
        /\ InBounds(r.self)
        /\ Store(r.self)
        /\ last' = Call("add_edge", start, end, w, r.raised, None)
  /\ UNCHANGED cls

Contains(node) ==
  /\ last' = Call("contains", node, None, None, FALSE, contains(Self, node))
  /\ Query

GetItem(node) ==
  /\ last' = Call("getitem", node, None, None, FALSE, getitem(Self, node))
  /\ Query

GetEdgeWeight(start, end) ==
  /\ last' = Call("get_edge_weight", start, end, None, FALSE, get_edge_weight(Self, start, end))
  /\ Query

Successors(node) ==
  /\ last' = Call("successors", node, None, None, FALSE, successors(Self, node))
  /\ Query

Predecessors(node) ==
  /\ last' = Call("predecessors", node, None, None, FALSE, predecessors(Self, node))
  /\ Query

Dfs(start) ==
  /\ last' = Call("dfs", start, None, None, FALSE, dfs(Self, start))
  /\ Query

Bfs(start) ==
  /\ last' = Call("bfs", start, None, None, FALSE, bfs(Self, start))
  /\ Query

TopSort ==
  /\ cls = "DAG"
  /\ last' = Call("top_sort", None, None, None, FALSE, top_sort(Self))
  /\ Query

\* The whole interface, on an object of either class.
Next ==
  \/ \E node \in Nodes, value \in Values \cup {None} : AddNode(node, value)
  \/ \E start \in Nodes, end \in Nodes, w \in Weights \cup {None} : AddEdge(start, end, w)
  \/ \E start \in Nodes, end \in Nodes, w \in Weights \cup {None} : DagAddEdge(start, end, w)
  \/ \E node \in Nodes : Contains(node)
  \/ \E node \in Nodes : GetItem(node)
  \/ \E start \in Nodes, end \in Nodes : GetEdgeWeight(start, end)
  \/ \E node \in Nodes : Successors(node)
  \/ \E node \in Nodes : Predecessors(node)
  \/ \E start \in Nodes : Dfs(start)
  \/ \E start \in Nodes : Bfs(start)
  \/ TopSort

Spec == Init /\ [][Next]_vars

\* A TraversableDigraph built without values and weights, and its
\* traversals.
InitTraversal == Init /\ cls = "TraversableDigraph"

NextTraversal ==
  \/ \E node \in Nodes : AddNode(node, None)
  \/ \E start \in Nodes, end \in Nodes : AddEdge(start, end, None)
  \/ \E start \in Nodes : Dfs(start)
  \/ \E start \in Nodes : Bfs(start)

SpecTraversal == InitTraversal /\ [][NextTraversal]_vars

\* The same digraph and its predecessor scan.
NextPredecessors ==
  \/ \E node \in Nodes : AddNode(node, None)
  \/ \E start \in Nodes, end \in Nodes : AddEdge(start, end, None)
  \/ \E node \in Nodes : Predecessors(node)

SpecPredecessors == InitTraversal /\ [][NextPredecessors]_vars

\* Node and edge insertion on an object of either class.
NextStore ==
  \/ \E node \in Nodes : AddNode(node, None)
  \/ \E start \in Nodes, end \in Nodes : AddEdge(start, end, None)
  \/ \E start \in Nodes, end \in Nodes : DagAddEdge(start, end, None)

SpecStore == Init /\ [][NextStore]_vars

\* A DAG: node insertion, guarded edge insertion (with and without weight)
\* and top_sort.
InitDAG == Init /\ cls = "DAG"

NextDAG ==
  \/ \E node \in Nodes : AddNode(node, None)
  \/ \E start \in Nodes, end \in Nodes, w \in Weights \cup {None} : DagAddEdge(start, end, w)
  \/ TopSort

SpecDAG == InitDAG /\ [][NextDAG]_vars

\* A DAG built by guarded edge insertion alone.
NextDAGEdges == \E start \in Nodes, end \in Nodes, w \in Weights \cup {None} : DagAddEdge(start, end, w)

SpecDAGEdges == InitDAG /\ [][NextDAGEdges]_vars

\* ------------------------------------------------- vocabulary of the claims
\* the successors of the nodes of S
Succ(g, S) == UNION {Range(g[u]) : u \in S \cap DOMAIN g}

RECURSIVE Closure(_, _)
Closure(g, S) == LET T == S \cup Succ(g, S) IN IF T = S THEN S ELSE Closure(g, T)

\* the nodes a path of one or more stored edges leads to from s
ReachPlus(g, s) == Closure(g, Succ(g, {s}))

\* t is k edges from the node the frontier F started from, F being the
\* nodes exactly k edges away along some path
RECURSIVE LayerDist(_, _, _, _, _)
LayerDist(g, F, seen, t, k) ==
  IF t \in F THEN k
  ELSE IF F \subseteq seen THEN MaxNodes + 1
  ELSE LayerDist(g, Succ(g, F), seen \cup F, t, k + 1)

\* least number of edges (one or more) of a path from s to t; MaxNodes + 1
\* when there is none
Dist(g, s, t) == LayerDist(g, Succ(g, {s}), {}, t, 1)

NoDup(s) == \A i, j \in 1..Len(s) : s[i] = s[j] => i = j

Pos(s, x) == CHOOSE i \in 1..Len(s) : s[i] = x

\* pre-order of the recursive depth-first search that visits the successors
\* in stored order and skips visited nodes
RECURSIVE Visit(_, _, _)
RECURSIVE VisitAll(_, _, _, _)
Visit(g, n, acc) ==
  IF n \in acc.visited THEN acc
  ELSE VisitAll(g, DictGet(g, n, <<>>), 1, [visited |-> acc.visited \cup {n}, out |-> Append(acc.out, n)])

VisitAll(g, nbrs, i, acc) ==
  IF i > Len(nbrs) THEN acc
  ELSE VisitAll(g, nbrs, i + 1, Visit(g, nbrs[i], acc))

RecPreorder(g, s) == Tail(Visit(g, s, [visited |-> {}, out |-> <<>>]).out)

\* ------------------------------------------------------------------ claims

\* C1: in a DAG no path of one or more stored edges leads from a node back
\* to itself, whatever add_node / add_edge calls were made.
C1_Acyclic == cls = "DAG" => \A n \in DOMAIN graph : n \notin ReachPlus(graph, n)

\* C2: in a DAG, add_edge(a, b, w) called when a path of stored edges leads
\* from b to a raises and changes neither a successor sequence nor a weight.
C2_CycleEdgeRejected ==
  [][(cls = "DAG" /\ last'.op = "add_edge" /\ last'.a \in ReachPlus(graph, last'.b))
       => (last'.raised /\ graph' = graph /\ edge_weights' = edge_weights)]_vars

\* C3: in a DAG, add_edge(x, x) raises and x is not a successor of x afterwards.
C3_SelfLoopRejected ==
  (cls = "DAG" /\ last.op = "add_edge" /\ last.a = last.b)
    => (last.raised /\ last.a \notin Range(getitem(Self, last.a)))

\* C4: top_sort() of a DAG returns every node exactly once, and the start of
\* every stored edge earlier than its end.
C4_TopSortIsTopologicalOrder ==
  (cls = "DAG" /\ last.op = "top_sort")
    => /\ NoDup(last.ret)
       /\ Range(last.ret) = DOMAIN graph
       /\ \A u \in DOMAIN graph : \A v \in Range(graph[u]) :
            /\ u \in Range(last.ret)
            /\ v \in Range(last.ret)
            /\ Pos(last.ret, u) < Pos(last.ret, v)

\* C5: dfs(start) and bfs(start) leave their loop (within one iteration per
\* stored edge, plus one), never emit start, and emit exactly the nodes other
\* than start that one or more edges lead to from start, each once.
C5_TraversalEmitsReachableOnce ==
  (last.op \in {"dfs", "bfs"})
    => /\ last.ret.exited
       /\ last.ret.iters <= EdgeCount(graph) + 1
       /\ last.a \notin Range(last.ret.out)
       /\ Range(last.ret.out) = ReachPlus(graph, last.a) \ {last.a}
       /\ NoDup(last.ret.out)

\* C5 witness: a bfs from a node that lies on a cycle and reaches another node
C5_Witness ==
  /\ last.op = "bfs"
  /\ last.a \in ReachPlus(graph, last.a)
  /\ Len(last.ret.out) >= 2

\* C6: bfs(start) emits its nodes in non-decreasing distance from start.
C6_BfsByDistance ==
  (last.op = "bfs")
    => \A i, j \in 1..Len(last.ret.out) :
         i < j => Dist(graph, last.a, last.ret.out[i]) <= Dist(graph, last.a, last.ret.out[j])

\* C6 witness: a bfs that emitted three nodes, the last farther than the first
C6_Witness ==
  /\ last.op = "bfs"
  /\ Len(last.ret.out) = 3
  /\ Dist(graph, last.a, last.ret.out[1]) < Dist(graph, last.a, last.ret.out[3])

\* C7: every successor is a key of the adjacency mapping, no successor
\* sequence holds a node twice, and after an add_edge(a, b) that did not
\* raise a and b are nodes and b occurs exactly once among a's successors.
C7_AdjacencyWellFormed ==
  /\ \A k \in DOMAIN graph : Range(graph[k]) \subseteq DOMAIN graph /\ NoDup(graph[k])
  /\ (last.op = "add_edge" /\ ~last.raised)
       => /\ contains(Self, last.a)
          /\ contains(Self, last.b)
          /\ Cardinality({i \in 1..Len(getitem(Self, last.a)) : getitem(Self, last.a)[i] = last.b}) = 1

\* C7 witness: a DAG whose last add_edge gave its start a second successor
C7_Witness ==
  /\ cls = "DAG"
  /\ last.op = "add_edge"
  /\ ~last.raised
  /\ Len(getitem(Self, last.a)) = 2

\* C8: in a DAG, add_edge(a, b, w) with a # b and no path of stored edges
\* from b to a does not raise, makes b a successor of a, keeps every stored
\* edge, and records w, when it is supplied, as the weight of (a, b).
C8_AcyclicEdgeAccepted ==
  [][(cls = "DAG" /\ last'.op = "add_edge" /\ last'.a # last'.b
        /\ last'.a \notin ReachPlus(graph, last'.b))
       => /\ ~last'.raised
          /\ last'.b \in Range(DictGet(graph', last'.a, <<>>))
          /\ \A k \in DOMAIN graph : \A v \in Range(graph[k]) : v \in Range(DictGet(graph', k, <<>>))
          /\ (last'.w # None => DictGet(edge_weights', <<last'.a, last'.b>>, None) = last'.w)]_vars

\* C8 witness: an accepted add_edge(a, b, w) with a weight, a # b
C8_Witness ==
  /\ cls = "DAG"
  /\ last.op = "add_edge"
  /\ ~last.raised
  /\ last.a # last.b
  /\ last.w # None
  /\ get_edge_weight(Self, last.a, last.b) = last.w
  /\ Len(getitem(Self, last.a)) = 2

\* C9: predecessors(n) returns exactly the nodes with n among their
\* successors, each once, in the order the nodes entered the graph, and
\* changes nothing.
C9_PredecessorsExact ==
  [][(last'.op = "predecessors")
       => /\ graph' = graph /\ order' = order
          /\ node_values' = node_values /\ edge_weights' = edge_weights
          /\ NoDup(last'.ret)
          /\ Range(last'.ret) = {k \in DOMAIN graph : last'.a \in Range(graph[k])}
          /\ \A i, j \in 1..Len(last'.ret) :
               i < j => Pos(order, last'.ret[i]) < Pos(order, last'.ret[j])]_vars

\* C9 witness: predecessors returned two nodes
C9_Witness == last.op = "predecessors" /\ Len(last.ret) = 2

\* C10: dfs(start) emits the pre-order of the recursive depth-first search
\* from start, start omitted.
C10_DfsIsRecursivePreorder ==
  (last.op = "dfs") => last.ret.out = RecPreorder(graph, last.a)

\* C10 witness: edges 1->2, 1->3, 2->4 and dfs(1) = [2, 4, 3]
C10_Witness ==
  /\ last.op = "dfs"
  /\ last.a = 1
  /\ getitem(Self, 1) = <<2, 3>>
  /\ getitem(Self, 2) = <<4>>
  /\ last.ret.out = <<2, 4, 3>>

====
